---- MODULE Spec2Model ----
(***************************************************************************)
(* The local question-answering engine of pickle-mini (src/app.py, section *)
(* 5 "Q&A MATCHER"): answer_question_from_memories and the helpers it      *)
(* calls.  A text is a sequence of characters (one-character strings); a   *)
(* character outside ASCII is written as an atom "<U+xxxx>".  A token is   *)
(* the string its characters concatenate to.                               *)
(***************************************************************************)
EXTENDS Integers, Sequences, FiniteSets, TLC

VARIABLES question, memories, pc, q_tokens, ranked, path, top_texts, body, answer

vars == <<question, memories, pc, q_tokens, ranked, path, top_texts, body, answer>>

-----------------------------------------------------------------------------
\* Characters

BULLET == "<U+2022>"
RSQUO == "<U+2019>"
NL == "<LF>"

LowerLetters ==
    {"a", "b", "c", "d", "e", "f", "g", "h", "i", "j", "k", "l", "m",
     "n", "o", "p", "q", "r", "s", "t", "u", "v", "w", "x", "y", "z"}

Digits == {"0", "1", "2", "3", "4", "5", "6", "7", "8", "9"}

ToLower ==
    ("A" :> "a") @@ ("B" :> "b") @@ ("C" :> "c") @@ ("D" :> "d") @@
    ("E" :> "e") @@ ("F" :> "f") @@ ("G" :> "g") @@ ("H" :> "h") @@
    ("I" :> "i") @@ ("J" :> "j") @@ ("K" :> "k") @@ ("L" :> "l") @@
    ("M" :> "m") @@ ("N" :> "n") @@ ("O" :> "o") @@ ("P" :> "p") @@
    ("Q" :> "q") @@ ("R" :> "r") @@ ("S" :> "s") @@ ("T" :> "t") @@
    ("U" :> "u") @@ ("V" :> "v") @@ ("W" :> "w") @@ ("X" :> "x") @@
    ("Y" :> "y") @@ ("Z" :> "z")

UpperLetters == DOMAIN ToLower

\* str.lower(), one character
LowerChar(c) == IF c \in UpperLetters THEN ToLower[c] ELSE c

\* str.lower()
Lower(s) == [i \in 1..Len(s) |-> LowerChar(s[i])]

\* the string a sequence of characters spells
RECURSIVE Str(_)
Str(s) == IF s = <<>> THEN "" ELSE Head(s) \o Str(Tail(s))

\* `h in s`: h occurs in s as a substring
Contains(s, h) ==
    \E i \in 1..(Len(s) - Len(h) + 1) : \A k \in 1..Len(h) : s[i + k - 1] = h[k]

\* "sep".join(parts)
RECURSIVE Join(_, _)
Join(parts, sep) ==
    IF parts = <<>> THEN <<>>
    ELSE IF Len(parts) = 1 THEN parts[1]
    ELSE parts[1] \o sep \o Join(Tail(parts), sep)

\* set(list)
Range(f) == {f[i] : i \in DOMAIN f}

-----------------------------------------------------------------------------
\* Words, spelled out, and sentences of them

W_the == <<"t", "h", "e">>
W_a == <<"a">>
W_an == <<"a", "n">>
W_Today == <<"T", "o", "d", "a", "y">>
W_today == <<"t", "o", "d", "a", "y">>
W_to == <<"t", "o">>
W_do == <<"d", "o">>
W_todo_dot == <<"t", "o", "d", "o", ".">>
W_I == <<"I">>
W_Iqm == <<"I", "'", "m">>
W_my == <<"m", "y">>
W_we == <<"w", "e">>
W_at == <<"a", "t">>
W_What == <<"W", "h", "a", "t">>
W_Who == <<"W", "h", "o">>
W_are == <<"a", "r", "e">>
W_have == <<"h", "a", "v", "e">>
W_playing == <<"p", "l", "a", "y", "i", "n", "g">>
W_Arsenal == <<"A", "r", "s", "e", "n", "a", "l">>
W_vs == <<"v", "s">>
W_Man == <<"M", "a", "n">>
W_City == <<"C", "i", "t", "y">>
W_Emirates_comma == <<"E", "m", "i", "r", "a", "t", "e", "s", ",">>
W_Sunday == <<"S", "u", "n", "d", "a", "y">>
W_430pm == <<"4", ":", "3", "0", "p", "m">>
W_game == <<"g", "a", "m", "e">>
W_game_dot == <<"g", "a", "m", "e", ".">>
W_things == <<"t", "h", "i", "n", "g", "s">>
W_birthday == <<"b", "i", "r", "t", "h", "d", "a", "y">>
W_interview == <<"i", "n", "t", "e", "r", "v", "i", "e", "w">>
W_football == <<"f", "o", "o", "t", "b", "a", "l", "l">>
W_park == <<"p", "a", "r", "k">>
W_tonight == <<"t", "o", "n", "i", "g", "h", "t">>
W_this == <<"t", "h", "i", "s">>
W_evening == <<"e", "v", "e", "n", "i", "n", "g">>
W_afternoon == <<"a", "f", "t", "e", "r", "n", "o", "o", "n">>
W_morning == <<"m", "o", "r", "n", "i", "n", "g">>
W_todo == <<"t", "o", "d", "o">>
W_tasks == <<"t", "a", "s", "k", "s">>
W_everything == <<"e", "v", "e", "r", "y", "t", "h", "i", "n", "g">>
W_all == <<"a", "l", "l">>
W_what == <<"w", "h", "a", "t">>
W_i == <<"i">>
W_should == <<"s", "h", "o", "u", "l", "d">>

\* the words joined by single spaces
Sentence(ws) == Join(ws, <<" ">>)

-----------------------------------------------------------------------------
\* 5.1 / 5.2  Stopwords and tokenizer

STOPWORDS ==
    {"a", "an", "the", "is", "are", "to", "of", "and", "on", "at", "by", "for",
     "in", "with", "this", "that", "today", "tonight", "sunday", "monday",
     "tuesday", "wednesday", "thursday", "friday", "saturday", "my", "me"}

\* the character class [a-z0-9']
TokenChars == LowerLetters \cup Digits \cup {"'"}

IsTokenChar(c) == c \in TokenChars

\* re.findall(r"[a-z0-9']+", s): the maximal runs, left to right
RECURSIVE FindAll(_, _, _)
FindAll(s, i, cur) ==
    IF i > Len(s)
    THEN IF cur = "" THEN <<>> ELSE <<cur>>
    ELSE IF IsTokenChar(s[i])
         THEN FindAll(s, i + 1, cur \o s[i])
         ELSE (IF cur = "" THEN <<>> ELSE <<cur>>) \o FindAll(s, i + 1, "")

IsStop(w) == w \in STOPWORDS

\* _tokens with the stopword filter dropped
Tokens_KeepStopwords(text) == FindAll(Lower(text), 1, "")

\* _tokens(text): the list of words that are no stopwords
Tokens(text) == SelectSeq(FindAll(Lower(text), 1, ""), LAMBDA w : ~IsStop(w))

\* set(_tokens(text))
TokenSet(text) == Range(Tokens(text))

-----------------------------------------------------------------------------
\* Multi-item detection and overlap

MULTI_Q_HINTS ==
    {W_today, W_tonight, Sentence(<<W_this, W_evening>>),
     Sentence(<<W_this, W_afternoon>>), Sentence(<<W_this, W_morning>>),
     Sentence(<<W_to, W_do>>), W_todo, W_tasks, W_things, W_everything,
     Sentence(<<W_all, W_the, W_things>>), Sentence(<<W_what, W_are, W_all>>),
     Sentence(<<W_what, W_do, W_i, W_have>>),
     Sentence(<<W_what, W_should, W_i, W_do>>)}

\* _wants_multi looking for the hints among the question's tokens
WantsMulti_OnTokens(q) == \E h \in MULTI_Q_HINTS : Str(h) \in TokenSet(q)

\* _wants_multi(question)
WantsMulti(q) == \E h \in MULTI_Q_HINTS : Contains(Lower(q), h)

\* _score_overlap(q_tokens, text)
ScoreOverlap(qt, text) == Cardinality(qt \cap TokenSet(text))

-----------------------------------------------------------------------------
\* 5.3  First person -> second person

\* the (pattern, replacement) list of _to_second_person, in its order; every
\* pattern is \b<pat>\b, matched with re.IGNORECASE (pat written in lower case)
REPL ==
    << [pat |-> <<"i", " ", "a", "m">>, sub |-> <<"Y", "o", "u", " ", "a", "r", "e">>],
       [pat |-> <<"i", "'", "m">>, sub |-> <<"Y", "o", "u", "'", "r", "e">>],
       [pat |-> <<"i", RSQUO, "v", "e">>, sub |-> <<"Y", "o", "u", RSQUO, "v", "e">>],
       [pat |-> <<"i", RSQUO, "d">>, sub |-> <<"Y", "o", "u", RSQUO, "d">>],
       [pat |-> <<"i", RSQUO, "l", "l">>, sub |-> <<"Y", "o", "u", RSQUO, "l", "l">>],
       [pat |-> <<"i">>, sub |-> <<"Y", "o", "u">>],
       [pat |-> <<"m", "y">>, sub |-> <<"y", "o", "u", "r">>],
       [pat |-> <<"m", "e">>, sub |-> <<"y", "o", "u">>],
       [pat |-> <<"o", "u", "r">>, sub |-> <<"y", "o", "u", "r">>],
       [pat |-> <<"o", "u", "r", "s">>, sub |-> <<"y", "o", "u", "r", "s">>],
       [pat |-> <<"w", "e">>, sub |-> <<"y", "o", "u">>],
       [pat |-> <<"u", "s">>, sub |-> <<"y", "o", "u">>] >>

\* the character class \w
WordChars == LowerLetters \cup UpperLetters \cup Digits \cup {"_"}

IsWordChar(c) == c \in WordChars

\* whether position i of s (1..Len(s)) holds a \w character; outside s: no
WordAt(s, i) == i >= 1 /\ i <= Len(s) /\ IsWordChar(s[i])

\* \b just before position i of s
Boundary(s, i) == WordAt(s, i - 1) # WordAt(s, i)

\* \b<pat>\b matches s at position i, ignoring case
MatchAt(s, i, pat) ==
    /\ i + Len(pat) - 1 <= Len(s)
    /\ \A k \in 1..Len(pat) : LowerChar(s[i + k - 1]) = pat[k]
    /\ Boundary(s, i)
    /\ Boundary(s, i + Len(pat))

\* the left-to-right scan of re.sub from position i of s: a match is
\* replaced and the scan goes on behind it
RECURSIVE ReSubFrom(_, _, _, _)
ReSubFrom(pat, sub, s, i) ==
    IF i > Len(s) THEN <<>>
    ELSE IF MatchAt(s, i, pat)
         THEN sub \o ReSubFrom(pat, sub, s, i + Len(pat))
         ELSE <<s[i]>> \o ReSubFrom(pat, sub, s, i + 1)

\* re.sub(r"\b<pat>\b", sub, s, flags=re.IGNORECASE); s itself when the
\* pattern matches nowhere
ReSub(pat, sub, s) ==
    IF \A i \in 1..Len(s) : ~MatchAt(s, i, pat) THEN s
    ELSE ReSubFrom(pat, sub, s, 1)

\* the for loop over repl, from its n-th pair on
RECURSIVE ApplyRepl(_, _)
ApplyRepl(s, n) ==
    IF n > Len(REPL) THEN s
    ELSE ApplyRepl(ReSub(REPL[n].pat, REPL[n].sub, s), n + 1)

\* the whitespace str.strip() removes
Whitespace == {" ", NL}

IsSpace(c) == c \in Whitespace

\* str.lstrip() / str.rstrip() / str.strip()
RECURSIVE LStrip(_)
LStrip(s) == IF s # <<>> /\ IsSpace(Head(s)) THEN LStrip(Tail(s)) ELSE s

RECURSIVE RStrip(_)
RStrip(s) ==
    IF s # <<>> /\ IsSpace(s[Len(s)]) THEN RStrip(SubSeq(s, 1, Len(s) - 1)) ELSE s

Strip(s) == RStrip(LStrip(s))

\* str.rstrip(".")
RECURSIVE RStripDots(_)
RStripDots(s) ==
    IF s # <<>> /\ s[Len(s)] = "." THEN RStripDots(SubSeq(s, 1, Len(s) - 1)) ELSE s

\* _to_second_person(text)
ToSecondPerson(text) ==
    IF text = <<>> THEN <<>>
    ELSE RStripDots(Strip(ApplyRepl(<<" ">> \o text \o <<" ">>, 1)))

-----------------------------------------------------------------------------
\* 5.4  Personality templates and the domain-aware suffix

\* templates: what precedes and what follows {memory_text}
TEMPLATES ==
    << [pre |-> "Here's what you've got: ", post |-> ". Go get it done! <U+1F4AA>"],
       [pre |-> "Don't forget <U+2014> ", post |-> ". You're going to rock it! <U+1F31F>"],
       [pre |-> "You've got this coming up: ", post |-> ". Stay sharp! <U+26A1>"],
       [pre |-> "Hey, just a heads up <U+2014> ", post |-> ". Make it count! <U+2728>"],
       [pre |-> "Mark your calendar: ", post |-> ". And don't be late! <U+23F0>"],
       [pre |-> "Get ready! ", post |-> ". You're unstoppable. <U+1F680>"],
       [pre |-> "Friendly reminder: ", post |-> ". You<U+2019>ll handle it like a pro. <U+1F60E>"] >>

BIRTHDAY_SUFFIX == " <U+1F382> Don't forget to wish them from me too!"
INTERVIEW_SUFFIX == " <U+1F91D> Go crush it, you've got this!"
SPORT_SUFFIX == " <U+26BD> Bring your A-game and have fun!"

\* the text up to its first line break
RECURSIVE FirstLine(_)
FirstLine(s) ==
    IF s = <<>> \/ Head(s) = NL THEN <<>> ELSE <<Head(s)>> \o FirstLine(Tail(s))

\* the chain looking at the first line (the first bullet) only
Flair_FirstLine(lower_text) ==
    IF Contains(FirstLine(lower_text), W_birthday) THEN <<BIRTHDAY_SUFFIX>>
    ELSE IF Contains(FirstLine(lower_text), W_interview) THEN <<INTERVIEW_SUFFIX>>
    ELSE IF Contains(FirstLine(lower_text), W_football)
              \/ Contains(FirstLine(lower_text), W_game)
         THEN <<SPORT_SUFFIX>>
    ELSE <<>>

\* the chain with the football/game branch tested first
Flair_SportFirst(lower_text) ==
    IF Contains(lower_text, W_football) \/ Contains(lower_text, W_game)
    THEN <<SPORT_SUFFIX>>
    ELSE IF Contains(lower_text, W_birthday) THEN <<BIRTHDAY_SUFFIX>>
    ELSE IF Contains(lower_text, W_interview) THEN <<INTERVIEW_SUFFIX>>
    ELSE <<>>

\* the if / elif chain on lower_text: the pieces appended to the response
Flair(lower_text) ==
    IF Contains(lower_text, W_birthday) THEN <<BIRTHDAY_SUFFIX>>
    ELSE IF Contains(lower_text, W_interview) THEN <<INTERVIEW_SUFFIX>>
    ELSE IF Contains(lower_text, W_football) \/ Contains(lower_text, W_game)
         THEN <<SPORT_SUFFIX>>
    ELSE <<>>

\* personality_response(memory_text, question) when random.choice picks
\* templates[k]: the returned string as the sequence of its pieces
PersonalityResponse(memory_text, k) ==
    <<TEMPLATES[k].pre>> \o memory_text \o <<TEMPLATES[k].post>>
        \o Flair(Lower(memory_text))

-----------------------------------------------------------------------------
\* Memory records: a dict field is absent, None, or holds a value

AbsentStr == [tag |-> "absent", val |-> <<>>]
NoneStr == [tag |-> "none", val |-> <<>>]
StrVal(s) == [tag |-> "str", val |-> s]

AbsentInt == [tag |-> "absent", val |-> 0]
NoneInt == [tag |-> "none", val |-> 0]
IntVal(n) == [tag |-> "int", val |-> n]

Mem(mt, t, imp) == [memory_text |-> mt, text |-> t, importance |-> imp]

\* dict.get(key, default)
Get(field, default) == IF field.tag = "absent" THEN default ELSE field

\* truth value of a str-or-None
Truthy(v) == v.tag = "str" /\ v.val # <<>>

\* m.get("memory_text", "") or m.get("text", "")
MemoryText(m) ==
    IF Truthy(Get(m.memory_text, StrVal(<<>>)))
    THEN Get(m.memory_text, StrVal(<<>>))
    ELSE Get(m.text, StrVal(<<>>))

OVERLAP_WEIGHT == 10
DEFAULT_IMPORTANCE == 3
TOP_N == 5

\* m.get("importance", 3)
ImportanceArg(m) == Get(m.importance, IntVal(DEFAULT_IMPORTANCE))

\* the boost without the weight of the overlap
Boost_Unweighted(score, imp) == score + imp

\* score * 10 + int(m.get("importance", 3))
Boost(score, imp) == score * OVERLAP_WEIGHT + imp

\* the test with `score >= 0` for `score > 0`
Keeps_AnyText(qt, m) == Truthy(MemoryText(m))

\* the record kept for m: `if not text: continue`, then `if score > 0`
Keeps(qt, m) == Truthy(MemoryText(m)) /\ ScoreOverlap(qt, MemoryText(m).val) > 0

\* int(None) raises TypeError
IntRaises(v) == v.tag = "none"

\* the for loop that fills `ranked`, from memory i on: the list built, or
\* raised when int() raises on the way
RECURSIVE RankLoop(_, _, _, _)
RankLoop(qt, mems, i, acc) ==
    IF i > Len(mems) THEN [raised |-> FALSE, ranked |-> acc]
    ELSE IF ~Keeps(qt, mems[i]) THEN RankLoop(qt, mems, i + 1, acc)
    ELSE IF IntRaises(ImportanceArg(mems[i])) THEN [raised |-> TRUE, ranked |-> acc]
    ELSE RankLoop(qt, mems, i + 1,
             Append(acc, [score |-> Boost(ScoreOverlap(qt, MemoryText(mems[i]).val),
                                          ImportanceArg(mems[i]).val),
                          text |-> MemoryText(mems[i]).val]))

\* where a stable descending sort puts e into the sorted list srt: behind
\* every element whose key is not smaller
RECURSIVE InsertDesc(_, _)
InsertDesc(srt, e) ==
    IF srt = <<>> THEN <<e>>
    ELSE IF Head(srt).score >= e.score THEN <<Head(srt)>> \o InsertDesc(Tail(srt), e)
    ELSE <<e>> \o srt

\* an ascending stable sort, reversed: equal keys end in reverse input order
RECURSIVE InsertAsc(_, _)
InsertAsc(srt, e) ==
    IF srt = <<>> THEN <<e>>
    ELSE IF Head(srt).score <= e.score THEN <<Head(srt)>> \o InsertAsc(Tail(srt), e)
    ELSE <<e>> \o srt

RECURSIVE SortAsc(_)
SortAsc(lst) ==
    IF lst = <<>> THEN <<>>
    ELSE InsertAsc(SortAsc(SubSeq(lst, 1, Len(lst) - 1)), lst[Len(lst)])

SortDesc_Unstable(lst) == [i \in 1..Len(lst) |-> SortAsc(lst)[Len(lst) + 1 - i]]

\* ranked.sort(key=lambda t: t[0], reverse=True): stable
RECURSIVE SortDesc(_)
SortDesc(lst) ==
    IF lst = <<>> THEN <<>>
    ELSE InsertDesc(SortDesc(SubSeq(lst, 1, Len(lst) - 1)), lst[Len(lst)])

\* the slice without its cut
TopSlice_All(lst) == lst

\* ranked[:5]
TopSlice(lst) == SubSeq(lst, 1, IF Len(lst) < TOP_N THEN Len(lst) ELSE TOP_N)

\* [t for _, t in ranked[:5]]
TopTexts(lst) == [i \in 1..Len(TopSlice(lst)) |-> TopSlice(lst)[i].text]

\* "\n".join(["<bullet> " + _to_second_person(txt) for txt in top_texts])
MultiBody(texts) ==
    Join([i \in 1..Len(texts) |-> <<BULLET, " ">> \o ToSecondPerson(texts[i])], <<NL>>)

I_DONT_KNOW == <<"I don't know.">>

\* a message of its own for the empty collection
NoMemoriesAnswer_Apology == <<"I don't have any memories yet.">>

\* what `if not memories:` returns
NoMemoriesAnswer == I_DONT_KNOW

-----------------------------------------------------------------------------
\* answer_question_from_memories(question, memories), statement by statement

\* if not memories: return "I don't know."
ReturnNoMemories ==
    /\ pc = "start"
    /\ memories = <<>>
    /\ pc' = "done"
    /\ path' = "no_memories"
    /\ answer' = NoMemoriesAnswer
    /\ UNCHANGED <<question, memories, q_tokens, ranked, top_texts, body>>

\* q_tokens = set(_tokens(question)); if not q_tokens: return "I don't know."
ReturnNoTokens ==
    /\ pc = "start"
    /\ memories # <<>>
    /\ TokenSet(question) = {}
    /\ pc' = "done"
    /\ path' = "no_tokens"
    /\ answer' = I_DONT_KNOW
    /\ UNCHANGED <<question, memories, q_tokens, ranked, top_texts, body>>

\* the ranking loop and the sort; a TypeError of int() leaves the function
RankMemories ==
    /\ pc = "start"
    /\ memories # <<>>
    /\ TokenSet(question) # {}
    /\ q_tokens' = TokenSet(question)
    /\ LET r == RankLoop(TokenSet(question), memories, 1, <<>>)
       IN IF r.raised
          THEN /\ pc' = "done"
               /\ path' = "raised"
               /\ ranked' = r.ranked
          ELSE /\ pc' = "ranked"
               /\ path' = path
               /\ ranked' = SortDesc(r.ranked)
    /\ UNCHANGED <<question, memories, top_texts, body, answer>>

\* if not ranked: return "I don't know."
ReturnNoMatch ==
    /\ pc = "ranked"
    /\ ranked = <<>>
    /\ pc' = "done"
    /\ path' = "no_match"
    /\ answer' = I_DONT_KNOW
    /\ UNCHANGED <<question, memories, q_tokens, ranked, top_texts, body>>

\* if _wants_multi(question): the bulleted body of the top texts
BuildMulti ==
    /\ pc = "ranked"
    /\ ranked # <<>>
    /\ WantsMulti(question)
    /\ top_texts' = TopTexts(ranked)
    /\ body' = MultiBody(TopTexts(ranked))
    /\ pc' = "respond"
    /\ path' = "multi"
    /\ UNCHANGED <<question, memories, q_tokens, ranked, answer>>

\* otherwise the best single match, rewritten
BuildSingle ==
    /\ pc = "ranked"
    /\ ranked # <<>>
    /\ ~WantsMulti(question)
    /\ top_texts' = <<ranked[1].text>>
    /\ body' = ToSecondPerson(ranked[1].text)
    /\ pc' = "respond"
    /\ path' = "single"
    /\ UNCHANGED <<question, memories, q_tokens, ranked, answer>>

\* return personality_response(body, question): random.choice picks any of
\* the templates
Respond ==
    /\ pc = "respond"
    /\ \E k \in 1..Len(TEMPLATES) : answer' = PersonalityResponse(body, k)
    /\ pc' = "done"
    /\ UNCHANGED <<question, memories, q_tokens, ranked, path, top_texts, body>>

Next ==
    \/ ReturnNoMemories
    \/ ReturnNoTokens
    \/ RankMemories
    \/ ReturnNoMatch
    \/ BuildMulti
    \/ BuildSingle
    \/ Respond

\* the state a call starts in, for a question and a memory list
Call(q, mems) ==
    /\ question = q
    /\ memories = mems
    /\ pc = "start"
    /\ q_tokens = {}
    /\ ranked = <<>>
    /\ path = "none"
    /\ top_texts = <<>>
    /\ body = <<>>
    /\ answer = <<>>

-----------------------------------------------------------------------------
\* Inputs

\* a question of these words
QuestionOf(ws) == IF ws = <<>> THEN <<>> ELSE Sentence(ws) \o <<"?">>

\* the sequences over V of length at most n
SeqsUpTo(V, n) == UNION {[1..k -> V] : k \in 0..n}

MaxQWords == 2
MaxMems == 2

Q_WhatDoIHave == QuestionOf(<<W_What, W_do, W_I, W_have, W_to, W_do, W_today>>)
Q_WhoAreArsenal == QuestionOf(<<W_Who, W_are, W_Arsenal, W_playing>>)
Q_TheAAn == Sentence(<<W_the, W_a, W_an>>)

T_ArsenalCity ==
    Sentence(<<W_Arsenal, W_vs, W_Man, W_City, W_at, W_the, W_Emirates_comma,
               W_Sunday, W_430pm>>)

W_Nothings == <<"N", "o", "t", "h", "i", "n", "g", "s">>

QVocab == {W_the, W_Today, W_to, W_do, W_todo, W_Nothings, W_Arsenal}

Questions ==
    {QuestionOf(ws) : ws \in SeqsUpTo(QVocab, MaxQWords)}
        \cup {Q_WhatDoIHave, Q_WhoAreArsenal, Q_TheAAn}

\* a stored row, a record of the other field name, a record without text,
\* and a row whose importance is null
M_City == Mem(StrVal(T_ArsenalCity), AbsentStr, IntVal(5))
M_Todo == Mem(AbsentStr, StrVal(Sentence(<<W_I, W_do, W_the, W_todo_dot>>)), AbsentInt)
M_NoText == Mem(NoneStr, StrVal(<<>>), IntVal(4))
M_NullImp == Mem(AbsentStr, StrVal(Sentence(<<W_the, W_Arsenal>>)), NoneInt)

Palette == {M_City, M_Todo, M_NoText, M_NullImp}

Init == \E q \in Questions, mems \in SeqsUpTo(Palette, MaxMems) : Call(q, mems)

Spec == Init /\ [][Next]_vars

-----------------------------------------------------------------------------
\* Inputs for the ranking: three questions over rows of differing overlap,
\* importance and keywords

MaxRankMems == 3

Q_ArsenalGame == QuestionOf(<<W_Arsenal, W_game>>)
Q_ArsenalGameThings == QuestionOf(<<W_Arsenal, W_game, W_things>>)

RankQuestions == {Q_ArsenalGame, Q_ArsenalGameThings, Q_TheAAn}

R_ArsenalFootballGame ==
    Mem(StrVal(Sentence(<<W_Arsenal, W_football, W_game_dot>>)), AbsentStr, IntVal(1))
R_BirthdayGame ==
    Mem(StrVal(Sentence(<<W_my, W_birthday, W_game>>)), AbsentStr, IntVal(5))
R_ArsenalInterview ==
    Mem(StrVal(Sentence(<<W_Arsenal, W_interview>>)), AbsentStr, AbsentInt)
R_AtFootball ==
    Mem(StrVal(Sentence(<<W_Iqm, W_at, W_football>>)), AbsentStr, IntVal(5))
R_ParkArsenal ==
    Mem(StrVal(Sentence(<<W_we, W_park, W_Arsenal>>)), AbsentStr, IntVal(5))
R_BirthdayFootball ==
    Mem(StrVal(Sentence(<<W_birthday, W_football, W_game>>)), AbsentStr, IntVal(1))

RankPalette ==
    {R_ArsenalFootballGame, R_BirthdayGame, R_ArsenalInterview, R_AtFootball,
     R_ParkArsenal, R_BirthdayFootball}

InitRank ==
    \E q \in RankQuestions, mems \in SeqsUpTo(RankPalette, MaxRankMems) : Call(q, mems)

SpecRank == InitRank /\ [][Next]_vars

-----------------------------------------------------------------------------
\* Inputs for the top-5 cut: more than five rows that overlap the question

MaxTopMems == 6

Q_Today == QuestionOf(<<W_Today>>)
Q_Game == QuestionOf(<<W_game>>)
Q_GameToday == QuestionOf(<<W_game, W_Today>>)

TopQuestions == {Q_Today, Q_Game, Q_GameToday}

P_MyGame == Mem(StrVal(Sentence(<<W_my, W_game>>)), AbsentStr, IntVal(5))
P_ArsenalGame == Mem(StrVal(W_Arsenal \o <<NL>> \o W_game_dot), AbsentStr, IntVal(1))
P_Park == Mem(StrVal(Sentence(<<W_we, W_park>>)), AbsentStr, AbsentInt)

TopPalette == {P_MyGame, P_ArsenalGame, P_Park}

InitTop ==
    \E q \in TopQuestions, mems \in SeqsUpTo(TopPalette, MaxTopMems) : Call(q, mems)

SpecTop == InitTop /\ [][Next]_vars

-----------------------------------------------------------------------------
\* What the claims speak of

SENTINEL == <<"I don't know.">>

\* the call has returned a string
Returned == pc = "done" /\ path # "raised"

HasText(m) == Truthy(MemoryText(m))
TextOf(m) == MemoryText(m).val

\* the texts t and u share a token
Shares(t, u) == TokenSet(t) \cap TokenSet(u) # {}

OverlapOf(t, u) == Cardinality(TokenSet(t) \cap TokenSet(u))

\* the memories that have a text sharing a token with the question
Matching ==
    LET qt == TokenSet(question)
    IN {i \in 1..Len(memories) :
           HasText(memories[i]) /\ qt \cap TokenSet(TextOf(memories[i])) # {}}

\* every importance is an integer in [1,5] or absent
ImportanceInRange ==
    \A i \in 1..Len(memories) :
        \/ memories[i].importance.tag = "absent"
        \/ memories[i].importance.tag = "int" /\ memories[i].importance.val \in 1..5

\* the (score, text) of a matching memory as the specification defines it
EntryOf(qt, m) ==
    [score |-> Cardinality(qt \cap TokenSet(TextOf(m))) * 10
                 + (IF m.importance.tag = "int" THEN m.importance.val ELSE 3),
     text |-> TextOf(m)]

\* the entries of the memories, in the order of the input; score 0 for a
\* memory that does not match
AllEntries ==
    LET qt == TokenSet(question)
    IN [i \in 1..Len(memories) |->
           IF HasText(memories[i]) /\ qt \cap TokenSet(TextOf(memories[i])) # {}
           THEN EntryOf(qt, memories[i])
           ELSE [score |-> 0, text |-> <<>>]]

\* the matching memories' entries in the order of the input
InputOrder == SelectSeq(AllEntries, LAMBDA e : e.score > 0)

\* what follows the template's closing piece in the answer
AnswerSuffix == SubSeq(answer, Len(body) + 3, Len(answer))

HasKeyword(t) ==
    \E kw \in {W_birthday, W_interview, W_football, W_game} : Contains(Lower(t), kw)

\* the suffix the priority birthday, interview, football/game gives
SuffixByPriority(b, i, g) ==
    IF b THEN <<BIRTHDAY_SUFFIX>>
    ELSE IF i THEN <<INTERVIEW_SUFFIX>>
    ELSE IF g THEN <<SPORT_SUFFIX>>
    ELSE <<>>

\* the questions made of stopwords only
StopOnlyQuestions ==
    {QuestionOf(ws) : ws \in SeqsUpTo({W_the, W_Today, W_to}, MaxQWords)}
        \cup {Q_TheAAn}

\* the hint phrases as the specification lists them
HintPhrases ==
    {W_today, W_tonight, Sentence(<<W_this, W_evening>>),
     Sentence(<<W_this, W_afternoon>>), Sentence(<<W_this, W_morning>>),
     Sentence(<<W_to, W_do>>), W_todo, W_tasks, W_things, W_everything,
     Sentence(<<W_all, W_the, W_things>>), Sentence(<<W_what, W_are, W_all>>),
     Sentence(<<W_what, W_do, W_i, W_have>>),
     Sentence(<<W_what, W_should, W_i, W_do>>)}

HasHint(q) == \E h \in HintPhrases : Contains(Lower(q), h)

-----------------------------------------------------------------------------
\* C1 as stated: with no memories the returned string is a no-memories
\* message distinct from the "I don't know." sentinel.
C1_Original == (pc = "done" /\ memories = <<>>) => answer # SENTINEL

\* C1 amended: with no memories the returned string is exactly
\* "I don't know.", the same string as the sentinel, for every question.
C1_EmptyMemoriesSentinel ==
    (pc = "done" /\ memories = <<>>) => (answer = SENTINEL /\ path = "no_memories")

C1_Witness ==
    pc = "done" /\ memories = <<>> /\ question = Q_WhoAreArsenal /\ answer = SENTINEL

\* C2: a question whose words are all stopwords is answered "I don't know."
\* whatever the memories hold, and neither the single-item nor the
\* multi-item path is entered.
C2_EmptyTokensUnknown ==
    question \in StopOnlyQuestions =>
        /\ pc \in {"start", "done"}
        /\ path \in {"none", "no_memories", "no_tokens"}
        /\ top_texts = <<>>
        /\ pc = "done" => answer = SENTINEL

C2_Witness ==
    /\ pc = "done"
    /\ question = QuestionOf(<<W_Today, W_the>>)
    /\ memories = <<M_Todo>>
    /\ path = "no_tokens"
    /\ answer = SENTINEL

\* C5: a returned answer is from the multi-item path exactly when the
\* lowercased raw question contains a hint phrase and some memory overlaps
\* the question; otherwise a non-sentinel answer is from the single-item path.
C5_MultiIffHint ==
    Returned =>
        /\ (path = "multi") = (HasHint(question) /\ Matching # {})
        /\ (path = "single") = (~HasHint(question) /\ Matching # {})
        /\ (answer # SENTINEL) = (path \in {"multi", "single"})
        /\ path = "multi" => body[1] = BULLET
        /\ question = Q_WhatDoIHave => path # "single"
        /\ question = Q_WhoAreArsenal => path # "multi"

C5_Witness ==
    /\ pc = "done"
    /\ question = Q_WhatDoIHave
    /\ path = "multi"
    /\ body[1] = BULLET
    /\ answer # SENTINEL

\* C7 as stated: for every question and every memory collection, records
\* with a null importance included, the call returns a string and never raises.
C7_NeverRaises == pc = "done" => (path # "raised" /\ answer # <<>>)

-----------------------------------------------------------------------------
\* C3: no memory without a shared token is ranked or embedded in an answer,
\* whatever its importance; when no memory shares a token the answer is
\* "I don't know." with or without a multi-item hint.
C3_NoZeroOverlap ==
    /\ \A i \in 1..Len(ranked) : Shares(ranked[i].text, question)
    /\ \A i \in 1..Len(top_texts) :
           /\ Shares(top_texts[i], question)
           /\ \E j \in 1..Len(memories) :
                  HasText(memories[j]) /\ TextOf(memories[j]) = top_texts[i]
    /\ path \in {"multi", "single"} => top_texts # <<>>
    /\ Returned => (Matching = {} => answer = SENTINEL)

C3_Witness ==
    /\ pc = "done"
    /\ path = "multi"
    /\ memories[1] = R_AtFootball
    /\ 1 \notin Matching
    /\ Len(top_texts) = Len(memories) - 1
    /\ Len(memories) = 3

\* C4: with score = overlap * 10 + importance, importance in [1,5] or absent,
\* a memory of larger overlap is ranked strictly ahead of one of smaller
\* overlap whatever the importances, and the single-item path's text is a
\* memory of maximal overlap.
C4_OverlapDominates ==
    (pc \in {"ranked", "respond", "done"} /\ path # "raised" /\ ImportanceInRange) =>
        LET qt == TokenSet(question)
            m == Matching
            ov == [i \in 1..Len(ranked) |->
                      Cardinality(qt \cap TokenSet(ranked[i].text))]
        IN /\ Len(ranked) = Cardinality(m)
           /\ \A i, j \in 1..Len(ranked) : ov[i] > ov[j] => i < j
           /\ path = "single" =>
                  /\ top_texts = <<ranked[1].text>>
                  /\ \A j \in m :
                         ov[1] >= Cardinality(qt \cap TokenSet(TextOf(memories[j])))

C4_Witness ==
    /\ pc = "done"
    /\ path = "single"
    /\ memories = <<R_BirthdayGame, R_ArsenalFootballGame>>
    /\ top_texts = <<TextOf(R_ArsenalFootballGame)>>

\* C9: memories of equal score keep the order of the input in the ranked
\* list, after the descending sort too, and the selected texts follow it.
C9_StableTies ==
    (pc \in {"ranked", "respond", "done"} /\ path # "raised") =>
        LET io == InputOrder
        IN /\ Len(ranked) = Len(io)
           /\ \A i \in 1..(Len(ranked) - 1) : ranked[i].score >= ranked[i + 1].score
           /\ \A sc \in {io[i].score : i \in 1..Len(io)} :
                  SelectSeq(ranked, LAMBDA e : e.score = sc)
                      = SelectSeq(io, LAMBDA e : e.score = sc)
           /\ \A i \in 1..Len(top_texts) : top_texts[i] = ranked[i].text

C9_Witness ==
    /\ pc = "done"
    /\ path = "multi"
    /\ memories = <<R_ParkArsenal, R_ArsenalFootballGame, R_BirthdayGame>>
    /\ top_texts = <<TextOf(R_ArsenalFootballGame), TextOf(R_ParkArsenal),
                     TextOf(R_BirthdayGame)>>

\* C6 as stated: on the multi-item path the suffix is decided by the first
\* selected memory's text only.
C6_Original ==
    (pc = "done" /\ path = "multi") =>
        AnswerSuffix =
            SuffixByPriority(Contains(Lower(top_texts[1]), W_birthday),
                             Contains(Lower(top_texts[1]), W_interview),
                             Contains(Lower(top_texts[1]), W_football)
                                 \/ Contains(Lower(top_texts[1]), W_game))

\* C6 amended: on the multi-item path the suffix is decided by the whole
\* bulleted body: a keyword in any selected memory's text appends its suffix.
C6_SuffixFromAnySelected ==
    (pc = "done" /\ path = "multi") =>
        AnswerSuffix =
            SuffixByPriority(
                \E i \in 1..Len(top_texts) : Contains(Lower(top_texts[i]), W_birthday),
                \E i \in 1..Len(top_texts) : Contains(Lower(top_texts[i]), W_interview),
                \E i \in 1..Len(top_texts) :
                    \/ Contains(Lower(top_texts[i]), W_football)
                    \/ Contains(Lower(top_texts[i]), W_game))

C6_Witness ==
    /\ pc = "done"
    /\ path = "multi"
    /\ Len(top_texts) = 2
    /\ ~HasKeyword(top_texts[1])
    /\ Contains(Lower(top_texts[2]), W_interview)
    /\ AnswerSuffix = <<INTERVIEW_SUFFIX>>

\* C8: at most one suffix is appended, by the priority birthday, interview,
\* football/game over the text handed to the template, whichever template
\* was chosen; a text with no keyword gets none.
C8_SuffixPriority ==
    (pc = "done" /\ path \in {"multi", "single"}) =>
        LET t == Lower(body)
            b == Contains(t, W_birthday)
            i == Contains(t, W_interview)
            g == Contains(t, W_football) \/ Contains(t, W_game)
        IN /\ Len(AnswerSuffix) <= 1
           /\ b => AnswerSuffix = <<BIRTHDAY_SUFFIX>>
           /\ (~b /\ i) => AnswerSuffix = <<INTERVIEW_SUFFIX>>
           /\ (~b /\ ~i /\ g) => AnswerSuffix = <<SPORT_SUFFIX>>
           /\ (~b /\ ~i /\ ~g) => AnswerSuffix = <<>>

C8_Witness ==
    /\ pc = "done"
    /\ path = "single"
    /\ Contains(Lower(body), W_birthday)
    /\ Contains(Lower(body), W_football)
    /\ AnswerSuffix = <<BIRTHDAY_SUFFIX>>

-----------------------------------------------------------------------------
\* the bulleted lines of the texts, joined by newlines
RECURSIVE BulletLines(_)
BulletLines(texts) ==
    IF texts = <<>> THEN <<>>
    ELSE <<BULLET, " ">> \o ToSecondPerson(Head(texts))
             \o (IF Len(texts) > 1 THEN <<NL>> \o BulletLines(Tail(texts)) ELSE <<>>)

\* the lines of s that start with the bullet marker
BulletLineCount(s) ==
    Cardinality({p \in 1..Len(s) : s[p] = BULLET /\ (p = 1 \/ s[p - 1] = NL)})

TemplatePieces ==
    {TEMPLATES[k].pre : k \in 1..Len(TEMPLATES)}
        \cup {TEMPLATES[k].post : k \in 1..Len(TEMPLATES)}

Min(a, b) == IF a < b THEN a ELSE b

\* C10: on the multi-item path with k matching memories the body is
\* min(5, k) bullet lines, the rewritten texts of the min(5, k) highest-ranked
\* memories in descending score order, joined by newlines, wrapped in exactly
\* one template.
C10_TopFiveBullets ==
    (pc \in {"respond", "done"} /\ path = "multi") =>
        LET io == InputOrder
            k == Len(io)
            n == Min(5, k)
        IN /\ k >= 1
           /\ Len(top_texts) = n
           /\ Len(ranked) = k
           /\ \A e \in {io[i] : i \in 1..k} :
                  Cardinality({i \in 1..k : ranked[i] = e})
                      = Cardinality({i \in 1..k : io[i] = e})
           /\ \A i \in 1..(k - 1) : ranked[i].score >= ranked[i + 1].score
           /\ \A i \in 1..n : top_texts[i] = ranked[i].text
           /\ pc = "respond" =>
                  /\ body = BulletLines(top_texts)
                  /\ BulletLineCount(body) = n
           /\ pc = "done" =>
                  /\ \E t \in 1..Len(TEMPLATES) :
                         /\ answer[1] = TEMPLATES[t].pre
                         /\ answer[Len(body) + 2] = TEMPLATES[t].post
                  /\ SubSeq(answer, 2, Len(body) + 1) = body
                  /\ Cardinality({p \in 1..Len(answer) : answer[p] \in TemplatePieces}) = 2

C10_Witness ==
    /\ pc = "done"
    /\ path = "multi"
    /\ Len(memories) = 6
    /\ Len(ranked) = 6
    /\ memories[6] = P_MyGame
    /\ Len(top_texts) = 5
    /\ top_texts[1] = TextOf(P_MyGame)
    /\ BulletLineCount(body) = 5

====
